---- MODULE Spec2Model ----
(***************************************************************************)
(* Model of the FinMate market-data lambdas:                               *)
(*   scraper   src/lambda/market-data-python.py         (requests)         *)
(*   stdlib    src/lambda/python/market-data-python.py  (urllib)           *)
(*   yfinance  src/market_data_python.py                (yfinance)         *)
(*   diag      src/test_packages.py                     (package report)   *)
(*                                                                         *)
(* Units.  Prices are integers in thousandths of a dollar, rounded quote   *)
(* prices in cents, changePercent in hundredths of a percent, betas in     *)
(* hundredths, sleeps in tenths of a second.  A random.uniform(a, b) draw  *)
(* is a choice between the two ends of the interval.                       *)
(***************************************************************************)
EXTENDS Integers, Sequences, FiniteSets, TLC

VARIABLES
    variant,      \* which lambda is deployed
    event,        \* the value of event.get('tickers', ...): [kind, val]
    pc,           \* position of the handler
    idx,          \* 0-based index of the for loop over tickers
    quotes, sectors, betas, inv_cache,   \* the handler's dictionaries
    attempt,      \* loop variable of the retry loop that is running
    reqs,         \* requests issued by the retry loop that is running or just returned
    fails,        \* how many of them failed
    chartRet,     \* value returned by get_yahoo_chart_price
    infoRet,      \* value returned by get_yahoo_company_info
    pend,         \* the handler's q, s, b before they are stored, and where they come from
    lastResp,     \* the response the last request got
    endpoint,     \* host of the last request
    lastWait,     \* length of the last sleep of the running iteration, 0 if none
    lastEv,       \* last I/O event of the invocation: "none", "req", "backoff", "spacing"
    lastReqIdx,   \* loop index for which the last request was made, -1 if none
    chartCalls,   \* calls of get_yahoo_chart_price made by this invocation
    installed,    \* the execution environment of the diagnostic handler
    packages,     \* the diagnostic handler's report
    response      \* the handler's return value: [statusCode, error, quotes, sectors, betas]

vars == <<variant, event, pc, idx, quotes, sectors, betas, inv_cache, attempt, reqs, fails,
          chartRet, infoRet, pend, lastResp, endpoint, lastWait, lastEv, lastReqIdx,
          chartCalls, installed, packages, response>>

----------------------------------------------------------------------------
(* Bounds of the model *)

MaxTickers == 3

(* Program constants *)

ChartMaxRetries == 3
InfoMaxRetries == 2

\* JSON null / Python None where a number is expected
Null == -1
\* a key that is not in a JSON object
Absent == -2
\* Python None where a string is expected
NoneStr == "<None>"

ENDPOINTS == {"query1", "query2"}

\* the three market-data lambdas
Variants == {"scraper", "stdlib", "yfinance"}

\* the tickers the events are drawn from
TickerUniverse == {"AAPL", "aapl", "ZZZ"}

\* the tickers the retry functions are called with when they are run alone
FunctionTickers == {"aapl", "GOOG", "c", "GS", "MRK", "jnj", "V", "ZZZ"}

\* str.upper on these tickers
Upper(t) ==
    CASE t = "aapl" -> "AAPL"
      [] t = "c" -> "C"
      [] t = "jnj" -> "JNJ"
      [] OTHER -> t

Empty == [t \in {} |-> 0]

Put(d, k, v) == [x \in (DOMAIN d) \cup {k} |-> IF x = k THEN v ELSE d[x]]

RECURSIVE SeqsUpTo(_, _)
SeqsUpTo(S, n) ==
    IF n = 0 THEN {<<>>}
    ELSE LET shorter == SeqsUpTo(S, n - 1)
         IN  shorter \cup {Append(s, x) : s \in {q \in shorter : Len(q) = n - 1}, x \in S}

Range(s) == {s[i] : i \in 1..Len(s)}

\* the values event.get('tickers', []) can have: key missing, None, a
\* non-empty string, a non-empty dict, or a list of tickers (possibly empty)
EventInputs ==
    {[kind |-> k, val |-> <<>>] : k \in {"missing", "none", "str", "dict"}}
    \cup {[kind |-> "list", val |-> s] : s \in SeqsUpTo(TickerUniverse, MaxTickers)}

\* bool(tickers): a missing key defaults to [], None and empty containers are false
Truthy(ev) ==
    CASE ev.kind \in {"missing", "none"} -> FALSE
      [] ev.kind = "list" -> Len(ev.val) > 0
      [] OTHER -> TRUE

IsList(ev) == ev.kind \in {"missing", "list"}

\* the validation without its isinstance test
InvalidTickersUntyped(ev) == ~Truthy(ev)

\* `not tickers or not isinstance(tickers, list)`
InvalidTickers(ev) == ~Truthy(ev) \/ ~IsList(ev)

\* round-half-even of n / d for d > 0, as Python's round does on a tie
RoundDiv(n, d) ==
    LET q == n \div d
        r == n % d
    IN  IF 2 * r < d THEN q
        ELSE IF 2 * r > d THEN q + 1
        ELSE IF q % 2 = 0 THEN q ELSE q + 1

\* round(x, 2) of a price in thousandths: the result in cents
Round2(m) == RoundDiv(m, 10)

\* round(pct, 2) of a percentage num/den: the result in hundredths of a percent
RoundPct(p) == RoundDiv(p[1] * 100, p[2])

\* a response: status 0 stands for a raised exception (no response at all);
\* body names the shape of the payload, the other fields are the parts of the
\* payload the handlers read
NoResponse ==
    [status |-> -1, body |-> "none", closes |-> <<>>, price |-> Absent, prev |-> Absent,
     sector |-> NoneStr, shape |-> "absent", beta |-> Null]

Http(status, body) == [NoResponse EXCEPT !.status = status, !.body = body]

----------------------------------------------------------------------------
(* get_yahoo_chart_price *)

ClosesInputs == {<<>>, <<Null, 15000>>, <<20000, Null, 17504, Null>>, <<0, 5000>>}

\* what session.get can produce for the chart URL: status 0 stands for a
\* raised exception; body "malformed" is JSON whose shape makes the parsing
\* code raise (a top-level array, a close that is not a list, ...)
ChartResponses ==
    {Http(0, "none"), Http(429, "none"), Http(404, "none"),
     Http(200, "badjson"), Http(200, "nochart"), Http(200, "malformed")}
    \cup {[Http(200, "closes") EXCEPT !.closes = c] : c \in ClosesInputs}

NonNullCloses(closes) == SelectSeq(closes, LAMBDA c : c # Null)

\* the branch one iteration of the retry loop takes
ChartOutcome(resp) ==
    CASE resp.status = 0 -> "exception"
      [] resp.status = 429 -> "ratelimited"
      [] resp.status # 200 -> "non200"
      [] resp.body = "badjson" -> "badjson"
      [] resp.body = "nochart" -> "empty"
      [] resp.body = "malformed" -> "raise"
      [] Len(NonNullCloses(resp.closes)) < 2 -> "insufficient"
      [] OTHER -> "ok"

ChartFailures == {"exception", "ratelimited", "non200", "badjson", "empty", "insufficient"}

Pow2(k) == IF k = 0 THEN 1 ELSE IF k = 1 THEN 2 ELSE IF k = 2 THEN 4 ELSE 8

\* the sleeps of a backoff that does not grow with the attempt number
ChartWaitsFlat(outcome, k) ==
    CASE outcome = "ratelimited" -> {20, 50}
      [] outcome \in {"exception", "non200"} -> {5, 15}
      [] OTHER -> {5, 10}

\* the sleeps a failed chart attempt can take
ChartWaits(outcome, k) ==
    CASE outcome = "ratelimited" -> {Pow2(k) * 20, Pow2(k) * 50}
      [] outcome \in {"exception", "non200"} -> {5, 15}
      [] OTHER -> {5, 10}

\* the tuple taken from the close list as it came, nulls included
PriceTupleUnfiltered(closes) ==
    LET current_price == closes[Len(closes)]
        previous_close == closes[Len(closes) - 1]
        change == current_price - previous_close
    IN  [price |-> current_price, prev |-> previous_close, change |-> change,
         pct |-> IF previous_close > 0 THEN <<change * 100, previous_close>> ELSE <<0, 1>>]

\* (current_price, previous_close, change, change_percent)
PriceTuple(closes) ==
    LET cs == NonNullCloses(closes)
        current_price == cs[Len(cs)]
        previous_close == cs[Len(cs) - 1]
        change == current_price - previous_close
    IN  [price |-> current_price, prev |-> previous_close, change |-> change,
         pct |-> IF previous_close > 0 THEN <<change * 100, previous_close>> ELSE <<0, 1>>]

NoPrice == [price |-> Null, prev |-> Null, change |-> Null, pct |-> <<0, 1>>]

\* q = {'price': round(..., 2), 'change': round(..., 2), 'changePercent': round(..., 2)}
QuoteOf(p) == [price |-> Round2(p.price), change |-> Round2(p.change), changePercent |-> RoundPct(p.pct)]

----------------------------------------------------------------------------
(* get_yahoo_company_info *)

\* a quoteSummary result: sector is assetProfile.sector (NoneStr when absent),
\* shape tells what the beta entry is: "absent", "raw" ({'raw': beta}),
\* "noraw" (a dict without 'raw') or "plain" (a bare number)
Summary(sector, shape, beta) ==
    [Http(200, "result") EXCEPT !.sector = sector, !.shape = shape, !.beta = beta]

InfoResponses ==
    {Http(0, "none"), Http(429, "none"), Http(404, "none"),
     Http(200, "badjson"), Http(200, "noresult"),
     Summary(NoneStr, "raw", 130), Summary("", "raw", 130), Summary("Energy", "absent", Null),
     Summary("Energy", "plain", 130), Summary("Energy", "raw", 0), Summary("Energy", "raw", 130)}

\* result.get('summaryDetail', {}).get('beta', {}).get('raw', None)
BetaRaw(resp) == IF resp.shape = "raw" THEN resp.beta ELSE Null

InfoOutcome(resp) ==
    CASE resp.status = 0 -> "exception"
      [] resp.status = 429 -> "ratelimited"
      [] resp.status # 200 -> "non200"
      [] resp.body = "badjson" -> "badjson"
      [] resp.body = "noresult" -> "parseerror"
      [] resp.shape = "plain" -> "parseerror"
      [] resp.sector \notin {NoneStr, ""} /\ BetaRaw(resp) # Null -> "ok"
      [] OTHER -> "incomplete"

InfoWaits(outcome, k) ==
    CASE outcome = "ratelimited" -> {Pow2(k) * 20, Pow2(k) * 40}
      [] outcome \in {"exception", "non200"} -> {5, 15}
      [] OTHER -> {5, 10}

\* the static table looked up without upper-casing the ticker
InfoDefaultsCaseSensitive(ticker) ==
    IF ticker \in {"AAPL", "MSFT", "GOOGL", "GOOG", "AMZN", "TSLA", "META", "NVDA"}
    THEN <<"Technology", 120>>
    ELSE IF ticker \in {"JPM", "BAC", "WFC", "GS", "MS", "C"}
    THEN <<"Financial Services", 110>>
    ELSE IF ticker \in {"JNJ", "PFE", "UNH", "ABBV", "MRK"}
    THEN <<"Healthcare", 90>>
    ELSE <<"Unknown", 100>>

\* the fallback defaults after the loop
InfoDefaults(ticker) ==
    LET ticker_up == Upper(ticker)
    IN  IF ticker_up \in {"AAPL", "MSFT", "GOOGL", "GOOG", "AMZN", "TSLA", "META", "NVDA"}
        THEN <<"Technology", 120>>
        ELSE IF ticker_up \in {"JPM", "BAC", "WFC", "GS", "MS", "C"}
        THEN <<"Financial Services", 110>>
        ELSE IF ticker_up \in {"JNJ", "PFE", "UNH", "ABBV", "MRK"}
        THEN <<"Healthcare", 90>>
        ELSE <<"Unknown", 100>>

----------------------------------------------------------------------------
(* get_mock_market_data *)

mock_stocks ==
    [n \in {"AAPL", "MSFT", "GOOGL", "GOOG", "AMZN", "TSLA", "META", "NVDA", "JPM", "BAC",
            "WFC", "JNJ", "PFE", "UNH", "V", "MA", "WMT", "DIS", "NFLX", "AMD"} |->
        CASE n = "AAPL" -> [price |-> 235, sector |-> "Technology", beta |-> 120]
          [] n = "MSFT" -> [price |-> 425, sector |-> "Technology", beta |-> 110]
          [] n = "GOOGL" -> [price |-> 165, sector |-> "Technology", beta |-> 105]
          [] n = "GOOG" -> [price |-> 167, sector |-> "Technology", beta |-> 105]
          [] n = "AMZN" -> [price |-> 180, sector |-> "Consumer Cyclical", beta |-> 115]
          [] n = "TSLA" -> [price |-> 265, sector |-> "Consumer Cyclical", beta |-> 200]
          [] n = "META" -> [price |-> 580, sector |-> "Technology", beta |-> 130]
          [] n = "NVDA" -> [price |-> 135, sector |-> "Technology", beta |-> 170]
          [] n = "JPM" -> [price |-> 215, sector |-> "Financial Services", beta |-> 110]
          [] n = "BAC" -> [price |-> 42, sector |-> "Financial Services", beta |-> 120]
          [] n = "WFC" -> [price |-> 60, sector |-> "Financial Services", beta |-> 115]
          [] n = "JNJ" -> [price |-> 160, sector |-> "Healthcare", beta |-> 60]
          [] n = "PFE" -> [price |-> 29, sector |-> "Healthcare", beta |-> 70]
          [] n = "UNH" -> [price |-> 570, sector |-> "Healthcare", beta |-> 75]
          [] n = "V" -> [price |-> 285, sector |-> "Financial Services", beta |-> 100]
          [] n = "MA" -> [price |-> 490, sector |-> "Financial Services", beta |-> 105]
          [] n = "WMT" -> [price |-> 82, sector |-> "Consumer Defensive", beta |-> 55]
          [] n = "DIS" -> [price |-> 115, sector |-> "Communication Services", beta |-> 115]
          [] n = "NFLX" -> [price |-> 720, sector |-> "Communication Services", beta |-> 130]
          [] n = "AMD" -> [price |-> 155, sector |-> "Technology", beta |-> 180]]

\* random.uniform(-0.03, 0.03) in thousandths (even, so that variation * 0.5 is whole)
Variations == {-30, 20}

\* (price tuple, sector, beta) for a variation v in thousandths
get_mock_market_data(ticker, v) ==
    LET ticker_up == Upper(ticker)
        known == ticker_up \in DOMAIN mock_stocks
        base_price == IF known THEN mock_stocks[ticker_up].price ELSE 100
        sector == IF known THEN mock_stocks[ticker_up].sector ELSE "Unknown"
        beta == IF known THEN mock_stocks[ticker_up].beta ELSE 100
        current_price == base_price * (1000 + v)
        previous_close == (base_price * (2000 - v)) \div 2
        change == current_price - previous_close
    IN  [tuple |-> [price |-> current_price, prev |-> previous_close, change |-> change,
                    pct |-> IF previous_close > 0 THEN <<change * 100, previous_close>>
                            ELSE <<0, 1>>],
         sector |-> sector, beta |-> beta]

----------------------------------------------------------------------------
(* State shared by the handlers *)

NoReturn == [statusCode |-> 0, error |-> "", quotes |-> Empty, sectors |-> Empty, betas |-> Empty]

Return400(msg) == [NoReturn EXCEPT !.statusCode = 400, !.error = msg]

Return500(msg) == [NoReturn EXCEPT !.statusCode = 500, !.error = msg]

\* {'statusCode': 200, 'body': json.dumps({'quotes': ..., 'sectors': ..., 'betas': ...})}
Return200(q, s, b) == [NoReturn EXCEPT !.statusCode = 200, !.quotes = q, !.sectors = s, !.betas = b]

NoQuote == [price |-> Null, change |-> Null, changePercent |-> Null]

NoPend == [q |-> NoQuote, s |-> NoneStr, b |-> Null, src |-> "none"]

NoInfo == <<NoneStr, Null>>

NoPackages == [p \in {} |-> ""]

Tickers == event.val

\* the ticker of the running loop iteration
Ticker == Tickers[idx + 1]

\* the state before the handler is entered
Fresh ==
    /\ pc = "entry"
    /\ idx = 0
    /\ attempt = 0 /\ reqs = 0 /\ fails = 0
    /\ chartRet = NoPrice
    /\ infoRet = NoInfo
    /\ pend = NoPend
    /\ lastResp = NoResponse
    /\ endpoint = "none"
    /\ lastWait = 0
    /\ lastEv = "none"
    /\ lastReqIdx = -1
    /\ chartCalls = 0
    /\ packages = NoPackages
    /\ response = NoReturn

\* the packages the diagnostic handler looks for, in the order of its try blocks
PackageNames == <<"pandas", "numpy", "yfinance", "boto3">>

\* an execution environment: the importable packages, and whether
\* /opt/python/yfinance exists and can be listed
Environments ==
    [importable : SUBSET Range(PackageNames), path : {"missing", "listable", "unlistable"}]

Init ==
    /\ variant \in Variants
    /\ event \in EventInputs
    /\ installed = [importable |-> Range(PackageNames), path |-> "missing"]
    /\ quotes = Empty /\ sectors = Empty /\ betas = Empty /\ inv_cache = Empty
    /\ Fresh

Dicts == <<quotes, sectors, betas, inv_cache>>
Call == <<attempt, reqs, fails, chartRet, infoRet, pend, lastResp, endpoint, lastWait>>
Io == <<lastEv, lastReqIdx>>

----------------------------------------------------------------------------
(* scraper: handler *)

\* lines 214-223: validation, then the empty dictionaries and the empty cache
ScraperValidate ==
    /\ pc = "entry" /\ variant = "scraper"
    /\ IF InvalidTickers(event)
       THEN /\ response' = Return400("Invalid tickers array")
            /\ pc' = "done"
            /\ UNCHANGED <<idx, Dicts>>
       ELSE /\ quotes' = Empty /\ sectors' = Empty /\ betas' = Empty
            /\ inv_cache' = Empty
            /\ idx' = 0
            /\ pc' = "loop"
            /\ UNCHANGED response
    /\ UNCHANGED <<variant, event, Call, Io, chartCalls, installed, packages>>

\* a cache that is never hit
CacheHitNever(cache, t) == FALSE

\* `if ticker in inv_cache`
CacheHit(cache, t) == t \in DOMAIN cache

\* the spacing test off by one
NeedsSpacingLate(i) == i > 1

\* `if idx > 0`
NeedsSpacing(i) == i > 0

\* lines 227-233: a ticker seen before is answered from the cache
ScraperCached ==
    /\ pc = "loop" /\ variant = "scraper"
    /\ idx < Len(Tickers)
    /\ CacheHit(inv_cache, Ticker)
    /\ quotes' = Put(quotes, Ticker, inv_cache[Ticker].q)
    /\ sectors' = Put(sectors, Ticker, inv_cache[Ticker].s)
    /\ betas' = Put(betas, Ticker, inv_cache[Ticker].b)
    /\ idx' = idx + 1
    /\ UNCHANGED <<variant, event, pc, inv_cache, Call, Io, chartCalls, installed, packages, response>>

\* random.uniform(4.0, 8.0)
SpacingDelays == {40, 80}

\* lines 235-241: the spacing sleep, then the call of get_yahoo_chart_price
ScraperFetch ==
    /\ pc = "loop" /\ variant = "scraper"
    /\ idx < Len(Tickers)
    /\ ~CacheHit(inv_cache, Ticker)
    /\ IF NeedsSpacing(idx)
       THEN /\ lastWait' \in SpacingDelays
            /\ lastEv' = "spacing"
       ELSE UNCHANGED <<lastWait, lastEv>>
    /\ chartCalls' = chartCalls + 1
    /\ attempt' = 0 /\ reqs' = 0 /\ fails' = 0
    /\ pc' = "chart"
    /\ UNCHANGED <<variant, event, idx, Dicts, chartRet, infoRet, pend, lastResp, endpoint,
                   lastReqIdx, installed, packages, response>>

\* what is kept of a request for the properties of the retry functions: the
\* response, the host and the sleep that followed; a run of a whole handler
\* keeps none of them
Observe(observed, resp, ep, wait) ==
    IF observed
    THEN lastResp' = resp /\ endpoint' = ep /\ lastWait' = wait
    ELSE lastResp' = NoResponse /\ endpoint' = "none" /\ lastWait' = 0

\* the loop bound off by one
ChartLoopRunsOnceMore(k) == k <= ChartMaxRetries

\* `for attempt in range(max_retries)` of get_yahoo_chart_price
ChartLoopRuns(k) == k < ChartMaxRetries

\* `for attempt in range(max_retries)` of get_yahoo_company_info
InfoLoopRuns(k) == k < InfoMaxRetries

\* the test of line 242 inverted
HasPriceInverted(tuple) == tuple.price = Null

\* `if current_price is not None`
HasPrice(tuple) == tuple.price # Null

\* one iteration of the retry loop of get_yahoo_chart_price (lines 24-93):
\* the request to host ep is answered by resp; a failed attempt sleeps `wait`
ChartIteration(resp, ep, wait, observed) ==
    LET o == ChartOutcome(resp)
    IN  /\ pc = "chart"
        /\ ChartLoopRuns(attempt)
        /\ Observe(observed, resp, ep, wait)
        /\ reqs' = reqs + 1
        /\ lastReqIdx' = idx
        /\ CASE o \in ChartFailures ->
                  /\ lastEv' = "backoff"
                  /\ attempt' = attempt + 1
                  /\ fails' = fails + 1
                  /\ UNCHANGED <<pc, chartRet, response>>
             [] o = "ok" ->
                  /\ chartRet' = PriceTuple(resp.closes)
                  /\ lastEv' = "req"
                  /\ pc' = "returned"
                  /\ UNCHANGED <<attempt, fails, response>>
             [] OTHER ->
                  \* the exception leaves the function and reaches line 277
                  /\ response' = Return500("internal")
                  /\ lastEv' = "req"
                  /\ pc' = "done"
                  /\ UNCHANGED <<attempt, fails, chartRet>>
        /\ UNCHANGED <<variant, event, idx, Dicts, infoRet, pend, chartCalls, installed, packages>>

\* the sleeps an attempt with this response can take: none when it succeeds
ChartSleeps(resp, k) ==
    IF ChartOutcome(resp) \in ChartFailures THEN ChartWaits(ChartOutcome(resp), k) ELSE {0}

ChartAttempt ==
    \E resp \in ChartResponses, ep \in ENDPOINTS :
       \E wait \in ChartSleeps(resp, attempt) : ChartIteration(resp, ep, wait, FALSE)

ChartAttemptObserved ==
    \E resp \in ChartResponses, ep \in ENDPOINTS :
       \E wait \in ChartSleeps(resp, attempt) : ChartIteration(resp, ep, wait, TRUE)

\* lines 95-96: the loop ran out, the function returns (None, None, None, None)
ChartExhausted ==
    /\ pc = "chart"
    /\ ~ChartLoopRuns(attempt)
    /\ chartRet' = NoPrice
    /\ pc' = "returned"
    /\ UNCHANGED <<variant, event, idx, Dicts, attempt, reqs, fails, infoRet, pend, lastResp,
                   endpoint, lastWait, Io, chartCalls, installed, packages, response>>

\* lines 252-262: no price, the mock data stand in
ScraperMock ==
    /\ pc = "returned"
    /\ ~HasPrice(chartRet)
    /\ \E v \in Variations :
          LET m == get_mock_market_data(Ticker, v)
          IN  pend' = [q |-> QuoteOf(m.tuple), s |-> m.sector, b |-> m.beta, src |-> "mock"]
    /\ pc' = "store"
    /\ UNCHANGED <<variant, event, idx, Dicts, attempt, reqs, fails, chartRet, infoRet,
                   lastResp, endpoint, lastWait, Io, chartCalls, installed, packages, response>>

\* lines 242-248: there is a price, get_yahoo_company_info is called
ScraperCallInfo ==
    /\ pc = "returned"
    /\ HasPrice(chartRet)
    /\ attempt' = 0 /\ reqs' = 0 /\ fails' = 0
    /\ pc' = "info"
    /\ UNCHANGED <<variant, event, idx, Dicts, chartRet, infoRet, pend, lastResp, endpoint,
                   lastWait, Io, chartCalls, installed, packages, response>>

\* `b = beta if beta is not None else 1.0`
BetaOrDefault(beta) == IF beta # Null THEN beta ELSE 100

\* lines 243-251: q, s, b from the price tuple and the (sector, beta) pair
FromApi(tuple, info) ==
    [q |-> QuoteOf(tuple), s |-> info[1], b |-> BetaOrDefault(info[2]), src |-> "api"]

\* one iteration of the retry loop of get_yahoo_company_info (lines 103-145)
InfoIteration(resp, ep, wait, observed) ==
    LET o == InfoOutcome(resp)
    IN  /\ pc = "info"
        /\ InfoLoopRuns(attempt)
        /\ Observe(observed, resp, ep, wait)
        /\ reqs' = reqs + 1
        /\ lastReqIdx' = idx
        /\ IF o = "ok"
           THEN /\ infoRet' = <<resp.sector, BetaRaw(resp)>>
                /\ pend' = FromApi(chartRet, <<resp.sector, BetaRaw(resp)>>)
                /\ lastEv' = "req"
                /\ pc' = "store"
                /\ UNCHANGED <<attempt, fails>>
           ELSE /\ lastEv' = "backoff"
                /\ attempt' = attempt + 1
                /\ fails' = fails + 1
                /\ UNCHANGED <<pc, infoRet, pend>>
        /\ UNCHANGED <<variant, event, idx, Dicts, chartRet, chartCalls, installed, packages, response>>

InfoSleeps(resp, k) ==
    IF InfoOutcome(resp) = "ok" THEN {0} ELSE InfoWaits(InfoOutcome(resp), k)

InfoAttempt ==
    \E resp \in InfoResponses, ep \in ENDPOINTS :
       \E wait \in InfoSleeps(resp, attempt) : InfoIteration(resp, ep, wait, FALSE)

InfoAttemptObserved ==
    \E resp \in InfoResponses, ep \in ENDPOINTS :
       \E wait \in InfoSleeps(resp, attempt) : InfoIteration(resp, ep, wait, TRUE)

\* lines 147-156: the loop ran out, the static table answers
InfoExhausted ==
    /\ pc = "info"
    /\ ~InfoLoopRuns(attempt)
    /\ infoRet' = InfoDefaults(Ticker)
    /\ pend' = FromApi(chartRet, InfoDefaults(Ticker))
    /\ pc' = "store"
    /\ UNCHANGED <<variant, event, idx, Dicts, attempt, reqs, fails, chartRet, lastResp,
                   endpoint, lastWait, Io, chartCalls, installed, packages, response>>

\* lines 264-267: store the ticker's data and remember it in the cache; the
\* values of the finished calls are dead from here on
ScraperStore ==
    /\ pc = "store" /\ variant = "scraper"
    /\ quotes' = Put(quotes, Ticker, pend.q)
    /\ sectors' = Put(sectors, Ticker, pend.s)
    /\ betas' = Put(betas, Ticker, pend.b)
    /\ inv_cache' = Put(inv_cache, Ticker, [q |-> pend.q, s |-> pend.s, b |-> pend.b])
    /\ idx' = idx + 1
    /\ pc' = "loop"
    /\ attempt' = 0 /\ reqs' = 0 /\ fails' = 0
    /\ chartRet' = NoPrice /\ infoRet' = NoInfo /\ pend' = NoPend
    /\ lastResp' = NoResponse /\ endpoint' = "none" /\ lastWait' = 0
    /\ UNCHANGED <<variant, event, Io, chartCalls, installed, packages, response>>

\* lines 269-275
ScraperReturn ==
    /\ pc = "loop" /\ variant = "scraper"
    /\ idx >= Len(Tickers)
    /\ response' = Return200(quotes, sectors, betas)
    /\ pc' = "done"
    /\ UNCHANGED <<variant, event, idx, Dicts, Call, Io, chartCalls, installed, packages>>

----------------------------------------------------------------------------
(* stdlib: src/lambda/python/market-data-python.py *)

\* a chart result whose meta carries these two entries (Absent: no such key)
Meta(price, prev) == [Http(200, "meta") EXCEPT !.price = price, !.prev = prev]

\* what urlopen + json.loads can produce for the chart URL; urlopen raises
\* on every status but 200
StdlibChartResponses ==
    {Http(0, "none"), Http(404, "none"), Http(200, "badjson"), Http(200, "nochart"),
     Http(200, "malformed"), Meta(5000, Null), Meta(17504, 20000), Meta(5000, 0)}

StdlibInfoResponses ==
    {Http(0, "none"), Http(200, "badjson"), Http(200, "noresult"),
     Summary(NoneStr, "absent", Null), Summary("Energy", "raw", 130),
     Summary("Energy", "raw", Null), Summary("Energy", "plain", 0)}

ZeroQuote == [price |-> 0, change |-> 0, changePercent |-> 0]

\* lines 37-58: [ok, q]; ok is false when the block raises
StdlibQuote(resp) ==
    IF resp.status # 200 \/ resp.body # "meta" \/ Null \in {resp.price, resp.prev}
    THEN [ok |-> FALSE, q |-> ZeroQuote]
    ELSE LET current_price == IF resp.price = Absent THEN 0 ELSE resp.price
             previous_close == IF resp.prev = Absent THEN current_price ELSE resp.prev
             change == current_price - previous_close
             pct == IF previous_close > 0 THEN <<change * 100, previous_close>> ELSE <<0, 1>>
         IN  [ok |-> TRUE,
              q |-> [price |-> Round2(current_price), change |-> Round2(change),
                     changePercent |-> RoundPct(pct)]]

\* lines 66-88: [set, s, b]; set is false when the block assigns neither
\* sectors[ticker] nor betas[ticker]
StdlibInfo(resp) ==
    CASE resp.status # 200 \/ resp.body \in {"badjson", "malformed"} ->
            [set |-> TRUE, s |-> "Unknown", b |-> 100]
      [] resp.body = "noresult" -> [set |-> FALSE, s |-> NoneStr, b |-> Null]
      [] resp.shape = "raw" /\ resp.beta = Null ->
            \* float(None) raises after the sector was stored: line 87 overwrites it
            [set |-> TRUE, s |-> "Unknown", b |-> 100]
      [] OTHER ->
            [set |-> TRUE,
             s |-> IF resp.sector = NoneStr THEN "Unknown" ELSE resp.sector,
             b |-> CASE resp.shape = "raw" -> resp.beta
                     [] resp.shape = "plain" /\ resp.beta \notin {Null, 0} -> resp.beta
                     [] OTHER -> 100]

\* an except block that forgets the beta of an earlier success
StdlibDefaultsNoBeta == [q |-> ZeroQuote, s |-> "Unknown", b |-> Null]

\* lines 90-95: the defaults of a ticker whose quote could not be fetched
StdlibDefaults == [q |-> ZeroQuote, s |-> "Unknown", b |-> 100]

\* lines 14-24
StdlibValidate ==
    /\ pc = "entry" /\ variant = "stdlib"
    /\ IF InvalidTickers(event)
       THEN /\ response' = Return400("Invalid tickers array provided")
            /\ pc' = "done"
            /\ UNCHANGED <<idx, quotes, sectors, betas>>
       ELSE /\ quotes' = Empty /\ sectors' = Empty /\ betas' = Empty
            /\ idx' = 0
            /\ pc' = "loop"
            /\ UNCHANGED response
    /\ UNCHANGED <<variant, event, inv_cache, Call, Io, chartCalls, installed, packages>>

\* lines 27-95: one iteration of the loop over the tickers
StdlibTicker ==
    /\ pc = "loop" /\ variant = "stdlib"
    /\ idx < Len(Tickers)
    /\ \E cresp \in StdlibChartResponses, iresp \in StdlibInfoResponses :
          LET quote == StdlibQuote(cresp)
              info == StdlibInfo(iresp)
          IN  IF ~quote.ok
              THEN /\ quotes' = Put(quotes, Ticker, StdlibDefaults.q)
                   /\ sectors' = Put(sectors, Ticker, StdlibDefaults.s)
                   /\ betas' = Put(betas, Ticker, StdlibDefaults.b)
                   /\ reqs' = 1 /\ fails' = 1
              ELSE /\ quotes' = Put(quotes, Ticker, quote.q)
                   /\ IF info.set
                      THEN /\ sectors' = Put(sectors, Ticker, info.s)
                           /\ betas' = Put(betas, Ticker, info.b)
                      ELSE UNCHANGED <<sectors, betas>>
                   /\ reqs' = 2 /\ fails' = 0
    /\ lastEv' = "req"
    /\ lastReqIdx' = idx
    /\ idx' = idx + 1
    /\ UNCHANGED <<variant, event, pc, inv_cache, attempt, chartRet, infoRet, pend, lastResp,
                   endpoint, lastWait, chartCalls, installed, packages, response>>

\* lines 97-109
StdlibReturn ==
    /\ pc = "loop" /\ variant = "stdlib"
    /\ idx >= Len(Tickers)
    /\ response' = Return200(quotes, sectors, betas)
    /\ pc' = "done"
    /\ UNCHANGED <<variant, event, idx, Dicts, Call, Io, chartCalls, installed, packages>>

----------------------------------------------------------------------------
(* yfinance: src/market_data_python.py *)

\* what stocks.tickers[ticker] and stock.history(period='2d') can produce:
\* an exception, or the Close column
YfHistories ==
    {Http(0, "none")} \cup {[Http(200, "closes") EXCEPT !.closes = c] :
                               c \in {<<>>, <<5000>>, <<20000, 17504>>}}

\* what stock.info can produce: an exception, or a dict with or without a
\* 'sector' entry (NoneStr: without) and with or without a 'beta' entry
YfInfos ==
    {Http(0, "none"), Summary(NoneStr, "absent", Null), Summary("Energy", "plain", 130),
     Summary("Energy", "plain", 0)}

\* lines 34-52: [ok, q]
YfQuote(hist) ==
    IF hist.status # 200 \/ Len(hist.closes) = 0
    THEN [ok |-> FALSE, q |-> ZeroQuote]
    ELSE LET n == Len(hist.closes)
             current_price == hist.closes[n]
             previous_close == IF n > 1 THEN hist.closes[n - 1] ELSE current_price
             change == current_price - previous_close
             pct == IF previous_close > 0 THEN <<change * 100, previous_close>> ELSE <<0, 1>>
         IN  [ok |-> TRUE,
              q |-> [price |-> Round2(current_price), change |-> Round2(change),
                     changePercent |-> RoundPct(pct)]]

\* lines 55-71: (sector, beta)
YfInfo(info, ticker) ==
    IF info.status # 200
    THEN IF Upper(ticker) \in {"AAPL", "MSFT", "GOOGL", "AMZN", "TSLA", "META", "NVDA"}
         THEN <<"Technology", 120>>
         ELSE IF Upper(ticker) \in {"JPM", "BAC", "WFC", "GS"}
         THEN <<"Financial Services", 110>>
         ELSE <<"Unknown", 100>>
    ELSE <<IF info.sector = NoneStr THEN "Technology" ELSE info.sector,
           IF info.shape = "absent" \/ info.beta \in {Null, 0} THEN 100 ELSE info.beta>>

\* lines 75-80: the defaults of a ticker whose quote could not be fetched
YfDefaults == [q |-> ZeroQuote, s |-> "Unknown", b |-> 100]

\* lines 12-26: validation, then yf.Tickers(' '.join(tickers)), which may raise
YfValidate ==
    /\ pc = "entry" /\ variant = "yfinance"
    /\ IF InvalidTickers(event)
       THEN /\ response' = Return400("Invalid tickers array provided")
            /\ pc' = "done"
            /\ UNCHANGED <<idx, quotes, sectors, betas, Io>>
       ELSE /\ lastEv' = "req"
            /\ UNCHANGED lastReqIdx
            /\ \E raised \in BOOLEAN :
                  IF raised
                  THEN /\ response' = Return500("Failed to fetch market data")
                       /\ pc' = "done"
                       /\ UNCHANGED <<idx, quotes, sectors, betas>>
                  ELSE /\ quotes' = Empty /\ sectors' = Empty /\ betas' = Empty
                       /\ idx' = 0
                       /\ pc' = "loop"
                       /\ UNCHANGED response
    /\ UNCHANGED <<variant, event, inv_cache, Call, chartCalls, installed, packages>>

\* lines 28-80: one iteration of the loop over the tickers
YfTicker ==
    /\ pc = "loop" /\ variant = "yfinance"
    /\ idx < Len(Tickers)
    /\ \E hist \in YfHistories, info \in YfInfos :
          LET quote == YfQuote(hist)
          IN  IF ~quote.ok
              THEN /\ quotes' = Put(quotes, Ticker, YfDefaults.q)
                   /\ sectors' = Put(sectors, Ticker, YfDefaults.s)
                   /\ betas' = Put(betas, Ticker, YfDefaults.b)
                   /\ reqs' = 1 /\ fails' = 1
              ELSE /\ quotes' = Put(quotes, Ticker, quote.q)
                   /\ sectors' = Put(sectors, Ticker, YfInfo(info, Ticker)[1])
                   /\ betas' = Put(betas, Ticker, YfInfo(info, Ticker)[2])
                   /\ reqs' = 2 /\ fails' = 0
    /\ lastEv' = "req"
    /\ lastReqIdx' = idx
    /\ idx' = idx + 1
    /\ UNCHANGED <<variant, event, pc, inv_cache, attempt, chartRet, infoRet, pend, lastResp,
                   endpoint, lastWait, chartCalls, installed, packages, response>>

\* lines 82-92
YfReturn ==
    /\ pc = "loop" /\ variant = "yfinance"
    /\ idx >= Len(Tickers)
    /\ response' = Return200(quotes, sectors, betas)
    /\ pc' = "done"
    /\ UNCHANGED <<variant, event, idx, Dicts, Call, Io, chartCalls, installed, packages>>

----------------------------------------------------------------------------
\* the runtime takes the response.  The frame of the finished call is gone;
\* inv_cache is left holding what the finished call put in it until line 223
\* binds the name again, so that a cache that outlived its invocation would show
Retire ==
    /\ pc = "done"
    /\ pc' = "idle"
    /\ event' = [kind |-> "missing", val |-> <<>>]
    /\ idx' = 0
    /\ attempt' = 0 /\ reqs' = 0 /\ fails' = 0
    /\ chartRet' = NoPrice /\ infoRet' = NoInfo /\ pend' = NoPend
    /\ lastResp' = NoResponse /\ endpoint' = "none" /\ lastWait' = 0
    /\ lastEv' = "none"
    /\ lastReqIdx' = -1
    /\ chartCalls' = 0
    /\ packages' = NoPackages
    /\ response' = NoReturn
    /\ quotes' = Empty /\ sectors' = Empty /\ betas' = Empty
    /\ UNCHANGED <<variant, installed, inv_cache>>

\* the runtime calls the deployed handler again with a new event
Invoke ==
    /\ pc = "idle"
    /\ event' \in EventInputs
    /\ pc' = "entry"
    /\ UNCHANGED <<variant, idx, Dicts, Call, Io, chartCalls, installed, packages, response>>

Next ==
    \/ ScraperValidate
    \/ ScraperCached
    \/ ScraperFetch
    \/ ChartAttempt
    \/ ChartExhausted
    \/ ScraperMock
    \/ ScraperCallInfo
    \/ InfoAttempt
    \/ InfoExhausted
    \/ ScraperStore
    \/ ScraperReturn
    \/ StdlibValidate
    \/ StdlibTicker
    \/ StdlibReturn
    \/ YfValidate
    \/ YfTicker
    \/ YfReturn
    \/ Retire
    \/ Invoke

Spec == Init /\ [][Next]_vars

----------------------------------------------------------------------------
(* diagnostic handler: src/test_packages.py *)

\* <package>.__version__
Version(name) ==
    CASE name = "pandas" -> "pandas.__version__"
      [] name = "numpy" -> "numpy.__version__"
      [] name = "yfinance" -> "yfinance.__version__"
      [] OTHER -> "boto3.__version__"

\* f"not available: {str(e)}"
NotAvailable(name) ==
    CASE name = "pandas" -> "not available: No module named 'pandas'"
      [] name = "numpy" -> "not available: No module named 'numpy'"
      [] name = "yfinance" -> "not available: No module named 'yfinance'"
      [] OTHER -> "not available: No module named 'boto3'"

\* lines 30-40: what the except block of yfinance adds
YfinancePath(pk, env) ==
    CASE env.path = "missing" -> Put(pk, "yfinance_path", "not found at /opt/python/yfinance")
      [] env.path = "listable" ->
            Put(Put(pk, "yfinance_path", "exists at /opt/python/yfinance"),
                "yfinance_contents", "os.listdir('/opt/python/yfinance')[:5]")
      [] OTHER ->
            Put(Put(pk, "yfinance_path", "exists at /opt/python/yfinance"),
                "yfinance_contents", "cannot list")

\* a try block whose except branch reports nothing
TryImportSilent(pk, name, env) ==
    IF name \in env.importable THEN Put(pk, name, Version(name)) ELSE pk

\* one try block of lines 13-46: the import of `name` in environment env
TryImport(pk, name, env) ==
    IF name \in env.importable
    THEN Put(pk, name, Version(name))
    ELSE IF name = "yfinance"
         THEN YfinancePath(Put(pk, name, NotAvailable(name)), env)
         ELSE Put(pk, name, NotAvailable(name))

\* the try blocks, in order; idx counts the blocks that are done
DiagImport ==
    /\ pc = "entry" /\ variant = "diag"
    /\ idx < Len(PackageNames)
    /\ packages' = TryImport(packages, PackageNames[idx + 1], installed)
    /\ idx' = idx + 1
    /\ UNCHANGED <<variant, event, pc, Dicts, Call, Io, chartCalls, installed, response>>

\* lines 48-53
DiagReturn ==
    /\ pc = "entry" /\ variant = "diag"
    /\ idx >= Len(PackageNames)
    /\ response' = [NoReturn EXCEPT !.statusCode = 200]
    /\ pc' = "done"
    /\ UNCHANGED <<variant, event, idx, Dicts, Call, Io, chartCalls, installed, packages>>

InitDiag ==
    /\ variant = "diag"
    /\ event \in {[kind |-> k, val |-> <<>>] : k \in {"missing", "list"}}
    /\ installed \in Environments
    /\ quotes = Empty /\ sectors = Empty /\ betas = Empty /\ inv_cache = Empty
    /\ Fresh

NextDiag == DiagImport \/ DiagReturn

SpecDiag == InitDiag /\ [][NextDiag]_vars

----------------------------------------------------------------------------
(* The retry functions run alone, every request observed *)

\* get_yahoo_chart_price(session, ticker) is called for one ticker
InitChart ==
    /\ variant = "scraper"
    /\ event \in {[kind |-> "list", val |-> <<t>>] : t \in FunctionTickers}
    /\ installed = [importable |-> Range(PackageNames), path |-> "missing"]
    /\ quotes = Empty /\ sectors = Empty /\ betas = Empty /\ inv_cache = Empty
    /\ pc = "chart"
    /\ idx = 0
    /\ attempt = 0 /\ reqs = 0 /\ fails = 0
    /\ chartRet = NoPrice /\ infoRet = NoInfo /\ pend = NoPend
    /\ lastResp = NoResponse /\ endpoint = "none" /\ lastWait = 0
    /\ lastEv = "none"
    /\ lastReqIdx = -1
    /\ chartCalls = 1
    /\ packages = NoPackages
    /\ response = NoReturn

NextChart == ChartAttemptObserved \/ ChartExhausted

SpecChart == InitChart /\ [][NextChart]_vars

\* the function runs on: a loop iteration that can be taken is taken
SpecChartFair == SpecChart /\ WF_vars(NextChart)

\* get_yahoo_company_info(session, ticker) is called for one ticker
InitInfo ==
    /\ variant = "scraper"
    /\ event \in {[kind |-> "list", val |-> <<t>>] : t \in FunctionTickers}
    /\ installed = [importable |-> Range(PackageNames), path |-> "missing"]
    /\ quotes = Empty /\ sectors = Empty /\ betas = Empty /\ inv_cache = Empty
    /\ pc = "info"
    /\ idx = 0
    /\ attempt = 0 /\ reqs = 0 /\ fails = 0
    /\ chartRet \in {PriceTuple(c) : c \in {x \in ClosesInputs : Len(NonNullCloses(x)) >= 2}}
    /\ infoRet = NoInfo /\ pend = NoPend
    /\ lastResp = NoResponse /\ endpoint = "none" /\ lastWait = 0
    /\ lastEv = "req"
    /\ lastReqIdx = 0
    /\ chartCalls = 1
    /\ packages = NoPackages
    /\ response = NoReturn

NextInfo == InfoAttemptObserved \/ InfoExhausted

SpecInfo == InitInfo /\ [][NextInfo]_vars

\* either retry function is called for one ticker
InitRetry == InitChart \/ InitInfo

NextRetry == NextChart \/ NextInfo

SpecRetry == InitRetry /\ [][NextRetry]_vars

----------------------------------------------------------------------------
(* Properties *)

Market == variant \in Variants

\* the tickers of the iterations that are finished
Processed == {Tickers[i] : i \in 1..idx}

\* C1: in each of the three market-data handlers, when event['tickers'] is
\* missing, empty or not a list, the handler returns statusCode 400 with an
\* 'error' body, and it has issued no request or library call and taken no
\* sleep when it returns.
C1_InvalidTickersRejected ==
    (Market /\ pc = "done" /\ (event.kind # "list" \/ event.val = <<>>)) =>
        /\ response.statusCode = 400
        /\ response.error # ""
        /\ lastEv = "none" /\ lastReqIdx = -1 /\ lastWait = 0
        /\ reqs = 0 /\ chartCalls = 0

C1_Witness ==
    /\ Market /\ pc = "done"
    /\ event.kind = "str"
    /\ response.statusCode = 400

\* C2 (state part): get_yahoo_chart_price issues at most 3 requests; it
\* returns a price exactly after a request that succeeded, all the requests
\* before it having failed, and it returns (None, None, None, None) exactly
\* after 3 requests that all failed; a response it takes for a failure is one
\* of the kinds the claim lists.
C2_Returns ==
    /\ reqs <= 3
    /\ (pc = "chart" /\ reqs > 0) =>
          /\ fails = reqs
          /\ \/ lastResp.status # 200
             \/ lastResp.body \in {"badjson", "nochart"}
             \/ lastResp.body = "closes" /\ Len(NonNullCloses(lastResp.closes)) < 2
    /\ pc = "returned" =>
          /\ chartRet.price = Null <=> (reqs = 3 /\ fails = 3)
          /\ chartRet.price # Null =>
                /\ fails = reqs - 1
                /\ lastResp.status = 200 /\ lastResp.body = "closes"
                /\ Len(NonNullCloses(lastResp.closes)) >= 2
          /\ chartRet.price = Null => chartRet = NoPrice

\* C2: get_yahoo_chart_price always terminates after at most max_retries
\* requests, returning a price at the first attempt that succeeds and
\* (None, None, None, None) exactly when all max_retries attempts failed.
C2_ChartTerminates == []C2_Returns /\ <>(pc # "chart")

C2_Witness ==
    /\ pc = "returned"
    /\ chartRet.price # Null
    /\ reqs = 3 /\ fails = 2

\* C3: in the scraper handler a ticker's quote, sector and beta come from
\* get_mock_market_data if and only if get_yahoo_chart_price returned no
\* price, which is after 3 failed chart requests; then no quoteSummary request
\* was issued for the ticker; and the handler answers 200 also when its last
\* request failed.
C3_MockIffChartFailed ==
    /\ (variant = "scraper" /\ pc = "store") =>
          /\ pend.src = "mock" <=> chartRet.price = Null
          /\ pend.src = "mock" =>
                /\ reqs = 3 /\ fails = 3 /\ infoRet = NoInfo
                /\ pend.s = (IF Ticker \in {"AAPL", "aapl"} THEN "Technology" ELSE "Unknown")
                /\ pend.b = (IF Ticker \in {"AAPL", "aapl"} THEN 120 ELSE 100)
                /\ LET base == IF Ticker \in {"AAPL", "aapl"} THEN 23500 ELSE 10000
                   IN  100 * pend.q.price \in (97 * base)..(103 * base)
          /\ pend.src = "api" =>
                /\ infoRet # NoInfo
                /\ pend.q.price = Round2(chartRet.price)
                /\ pend.s = infoRet[1]
    /\ (variant = "scraper" /\ pc = "done" /\ lastEv = "backoff") => response.statusCode = 200

\* every ticker of a 200 response of the scraper was answered with mock data
C3_Witness ==
    /\ variant = "scraper" /\ pc = "done"
    /\ response.statusCode = 200
    /\ Len(Tickers) >= 2
    /\ lastEv = "backoff"
    /\ \A t \in DOMAIN response.quotes :
          /\ response.quotes[t].price >= 9700
          /\ response.sectors[t] \in {"Technology", "Unknown"}

\* C4: in every 200 response of the three market-data handlers the key sets
\* of 'quotes', 'sectors' and 'betas' all equal the set of distinct tickers of
\* the input list, whatever the upstream answered.
C4_EveryTickerAnswered ==
    (Market /\ pc = "done" /\ response.statusCode = 200) =>
        /\ DOMAIN response.quotes = Range(Tickers)
        /\ DOMAIN response.sectors = Range(Tickers)
        /\ DOMAIN response.betas = Range(Tickers)

\* C5: get_yahoo_company_info returns a non-null sector and a non-null beta
\* after at most 2 requests: the values of a response that carries a truthy
\* sector and a non-null beta raw value, and in every other case the entry of
\* the static table for the upper-cased ticker.
C5_InfoReturn ==
    LET good == /\ lastResp.status = 200 /\ lastResp.body = "result"
                /\ lastResp.sector \notin {NoneStr, ""}
                /\ lastResp.shape = "raw" /\ lastResp.beta # Null
        t == Ticker
    IN  /\ reqs <= 2
        /\ (pc = "info" /\ reqs > 0) => ~good /\ fails = reqs
        /\ pc = "store" =>
              /\ infoRet[1] # NoneStr /\ infoRet[2] # Null
              /\ good => infoRet = <<lastResp.sector, lastResp.beta>>
              /\ ~good =>
                    /\ reqs = 2 /\ fails = 2
                    /\ infoRet =
                          CASE t \in {"aapl", "GOOG"} -> <<"Technology", 120>>
                            [] t \in {"c", "GS"} -> <<"Financial Services", 110>>
                            [] t \in {"MRK", "jnj"} -> <<"Healthcare", 90>>
                            [] OTHER -> <<"Unknown", 100>>

\* a response with a sector but no beta: the lower-case ticker gets its
\* table entry
C5_Witness ==
    /\ pc = "store"
    /\ Ticker = "jnj"
    /\ lastResp.sector = "Energy" /\ lastResp.shape = "absent"
    /\ infoRet = <<"Healthcare", 90>>

\* C6: every backoff sleep taken after a failed attempt is followed by
\* another request of the same retry loop: when the last thing that happened
\* is a backoff sleep, the loop has an iteration left.
C6_SleepOnlyBeforeRetry ==
    lastEv = "backoff" =>
        \/ pc = "chart" /\ attempt < ChartMaxRetries
        \/ pc = "info" /\ attempt < InfoMaxRetries

\* C7: the diagnostic handler returns statusCode 200 and its 'packages' map
\* has an entry for each of pandas, numpy, yfinance and boto3, whichever of
\* them can be imported: the version of an importable one, a
\* 'not available: ...' string for one that cannot.
C7_EveryPackageReported ==
    (variant = "diag" /\ pc = "done") =>
        /\ response.statusCode = 200
        /\ \A name \in {"pandas", "numpy", "yfinance", "boto3"} :
              /\ name \in DOMAIN packages
              /\ name \in installed.importable =>
                    packages[name] \in {"pandas.__version__", "numpy.__version__",
                                        "yfinance.__version__", "boto3.__version__"}
              /\ name \notin installed.importable =>
                    packages[name] \in {"not available: No module named 'pandas'",
                                        "not available: No module named 'numpy'",
                                        "not available: No module named 'yfinance'",
                                        "not available: No module named 'boto3'"}

\* only the last package can be imported, and it is reported
C7_Witness ==
    /\ variant = "diag" /\ pc = "done"
    /\ installed.importable = {"boto3"}
    /\ packages["pandas"] = "not available: No module named 'pandas'"
    /\ packages["boto3"] = "boto3.__version__"

\* a ticker of the list that an earlier iteration has already handled
Repeated == idx < Len(Tickers) /\ Ticker \in Processed

\* C8 (state part): the calls of get_yahoo_chart_price made so far are as
\* many as the distinct tickers handled so far; the cache is empty when the
\* loop starts and holds, for each ticker handled, what the dictionaries hold.
C8_OneCallPerTicker ==
    variant = "scraper" =>
        /\ pc = "loop" =>
              /\ chartCalls = Cardinality(Processed)
              /\ DOMAIN inv_cache = Processed
              /\ DOMAIN quotes = Processed
              /\ \A t \in Processed :
                    inv_cache[t] = [q |-> quotes[t], s |-> sectors[t], b |-> betas[t]]
        /\ (pc = "loop" /\ idx = 0) => inv_cache = Empty
        /\ (pc = "done" /\ response.statusCode = 200) =>
              chartCalls = Cardinality(Range(Tickers))

\* C8 (step part): the iteration of a repeated ticker issues no request,
\* takes no sleep, generates no mock data and leaves the dictionaries as the
\* first occurrence filled them; storing a new ticker changes no older entry.
C8_RepeatedTickerStep ==
    /\ (variant = "scraper" /\ pc = "loop" /\ Repeated) =>
          /\ pc' = "loop" /\ idx' = idx + 1
          /\ UNCHANGED <<lastEv, lastReqIdx, lastWait, reqs, chartCalls, pend, Dicts>>
    /\ (variant = "scraper" /\ pc = "store") =>
          \A t \in DOMAIN inv_cache :
             /\ inv_cache'[t] = inv_cache[t]
             /\ quotes'[t] = quotes[t]

\* C8: in the scraper handler the cache makes the number of
\* get_yahoo_chart_price calls equal to the number of distinct
\* (case-sensitive) tickers of the list; a repeated ticker triggers no
\* request, no spacing sleep and no mock regeneration and gets what was
\* stored at its first occurrence; the cache starts empty on every invocation.
C8_CachePerInvocation == []C8_OneCallPerTicker /\ [][C8_RepeatedTickerStep]_vars

\* AAPL, aapl, AAPL: two calls, the third ticker answered from the cache
C8_Witness ==
    /\ variant = "scraper" /\ pc = "done"
    /\ Tickers = <<"AAPL", "aapl", "AAPL">>
    /\ response.statusCode = 200
    /\ chartCalls = 2
    /\ lastReqIdx = 1

\* C9: in the scraper handler the first request for a ticker that is not
\* cached comes right after a spacing sleep of 4.0 to 8.0 s, taken after the
\* last request of the ticker before it, whenever its list index is above 0,
\* and after no sleep at all at index 0; a spacing sleep is taken nowhere else.
C9_SpacingBetweenTickers ==
    variant = "scraper" =>
        /\ (pc = "chart" /\ reqs = 0) =>
              IF idx = 0
              THEN lastEv = "none" /\ lastReqIdx = -1 /\ lastWait = 0
              ELSE /\ lastEv = "spacing"
                   /\ lastWait \in 40..80
                   /\ lastReqIdx \in 0..(idx - 1)
        /\ lastEv = "spacing" => (pc = "chart" /\ reqs = 0 /\ idx > 0)

\* A, A, B: B is spaced although the ticker before it caused no request
C9_Witness ==
    /\ variant = "scraper" /\ pc = "chart" /\ reqs = 0
    /\ idx = 2
    /\ Tickers[1] = Tickers[2]
    /\ lastReqIdx = 0
    /\ lastEv = "spacing"

\* C10 (step part): an iteration of the stdlib or yfinance loop goes on to
\* the next ticker; when the quote of its ticker could not be fetched the
\* ticker gets the zero quote, 'Unknown' and 1.0, and the entries of the
\* other tickers stay as they are.
C10_FailedTickerStep ==
    (variant \in {"stdlib", "yfinance"} /\ pc = "loop" /\ idx < Len(Tickers)) =>
        /\ pc' = "loop" /\ idx' = idx + 1
        /\ response' = response
        /\ fails' = 1 =>
              /\ quotes'[Ticker] = [price |-> 0, change |-> 0, changePercent |-> 0]
              /\ sectors'[Ticker] = "Unknown"
              /\ betas'[Ticker] = 100
              /\ \A t \in DOMAIN quotes \ {Ticker} : quotes'[t] = quotes[t]
              /\ \A t \in DOMAIN sectors \ {Ticker} : sectors'[t] = sectors[t]
              /\ \A t \in DOMAIN betas \ {Ticker} : betas'[t] = betas[t]

\* C10: in the stdlib and yfinance handlers a failure while fetching one
\* ticker's quote never aborts the invocation: the ticker gets the default
\* entries, the entries of the other tickers stay unchanged, the remaining
\* tickers are processed and the handler returns statusCode 200.
C10_FailureIsolated ==
    /\ [][C10_FailedTickerStep]_vars
    /\ []((variant \in {"stdlib", "yfinance"} /\ pc = "done" /\ lastReqIdx >= 0) =>
             (response.statusCode = 200 /\ idx = Len(Tickers)))

\* the second of three tickers failed, the first and the third did not
C10_Witness ==
    /\ variant = "stdlib" /\ pc = "done"
    /\ Len(Tickers) = 3
    /\ response.statusCode = 200
    /\ response.quotes[Tickers[2]] = [price |-> 0, change |-> 0, changePercent |-> 0]
    /\ response.quotes[Tickers[1]].price > 0
    /\ response.quotes[Tickers[3]].price > 0

\* the last response is a chart result with at least two closes that are not null
ChartSucceeded ==
    /\ lastResp.status = 200 /\ lastResp.body = "closes"
    /\ Cardinality({i \in 1..Len(lastResp.closes) : lastResp.closes[i] # Null}) >= 2

\* C11: when an attempt of get_yahoo_chart_price succeeds, the function
\* returns current_price = the last close that is not null, previous_close =
\* the last close before it that is not null, change = current_price -
\* previous_close, and change_percent = change / previous_close * 100 when
\* previous_close > 0 and 0 otherwise; a response with fewer than 2 closes
\* that are not null never becomes a result.
C11_PriceFromLastTwoCloses ==
    LET cl == lastResp.closes
        nn == {i \in 1..Len(cl) : cl[i] # Null}
        last == CHOOSE i \in nn : \A j \in nn : j <= i
        before == CHOOSE i \in nn \ {last} : \A j \in nn \ {last} : j <= i
    IN  /\ (pc = "returned" /\ ChartSucceeded) =>
              /\ chartRet.price = cl[last]
              /\ chartRet.prev = cl[before]
              /\ chartRet.change = cl[last] - cl[before]
              /\ chartRet.pct = (IF cl[before] > 0
                                 THEN <<(cl[last] - cl[before]) * 100, cl[before]>>
                                 ELSE <<0, 1>>)
        /\ (reqs > 0 /\ ~ChartSucceeded) => chartRet = NoPrice
        /\ chartRet # NoPrice => (pc = "returned" /\ ChartSucceeded)

\* closes 20.000, null, 17.504, null: the nulls are skipped
C11_Witness ==
    /\ pc = "returned"
    /\ lastResp.closes = <<20000, Null, 17504, Null>>
    /\ chartRet.price = 17504 /\ chartRet.prev = 20000
    /\ chartRet.change = -2496
    /\ chartRet.pct = <<-249600, 20000>>

\* C12 (step part): a request that follows a failed attempt of the same call
\* goes to another host than the attempt that failed.
C12_RetryStep ==
    (pc = "chart" /\ reqs > 0 /\ reqs' = reqs + 1) => endpoint' # endpoint

\* C12: every request of get_yahoo_chart_price goes to query1 or query2, and
\* a retry goes to a different endpoint than the attempt that just failed, so
\* that the attempts for one ticker are not all sent to the same endpoint.
C12_EndpointsRotate ==
    /\ [](reqs > 0 => endpoint \in {"query1", "query2"})
    /\ [][C12_RetryStep]_vars

\* C13: the sleep after an HTTP 429 at the 0-based attempt k lies in
\* [2 * 2^k, 5 * 2^k] seconds in get_yahoo_chart_price and in
\* [2 * 2^k, 4 * 2^k] seconds in get_yahoo_company_info; the sleep after any
\* other failure lies in a fixed range of at most 1.5 s, whatever the attempt
\* number.  (Sleeps are in tenths of a second; after a failed attempt k the
\* loop variable of the model is k + 1.)
C13_BackoffRanges ==
    lastEv = "backoff" =>
        LET k == attempt - 1
            inChart == pc \in {"chart", "returned"}
        IN  /\ k \in 0..2
            /\ IF lastResp.status = 429
               THEN IF inChart
                    THEN lastWait \in (20 * 2^k)..(50 * 2^k)
                    ELSE lastWait \in (20 * 2^k)..(40 * 2^k)
               ELSE IF lastResp.status # 200
                    THEN lastWait \in 5..15
                    ELSE lastWait \in 5..10

\* the third chart attempt was answered 429 and slept 20 s
C13_Witness ==
    /\ pc = "chart"
    /\ lastEv = "backoff"
    /\ lastResp.status = 429
    /\ attempt = 3
    /\ lastWait = 200

====
